---- MODULE Spec2Model ----
(***************************************************************************)
(* Playback manager of the sound grid (SoundGrid component): the React     *)
(* state currentlyPlaying / audioElement / error, the HTMLAudioElement     *)
(* objects created by handlePlay, and the asynchronous events they         *)
(* deliver to the listeners handlePlay attaches.                           *)
(*                                                                         *)
(* Trim and encode engine (audioUtils.ts): one call of createTrimmedAudio  *)
(* from its argument check to the WAV blob written by audioBufferToWav.    *)
(*                                                                         *)
(* Sound store and catalog: the request handlers of server/index.js over   *)
(* the files of public/, the AudioProvider (reducer, loadSounds effect,    *)
(* save effect, localStorage key 'audio-sounds') and handleSubmit of the   *)
(* upload form.                                                            *)
(***************************************************************************)
EXTENDS Integers, Sequences, FiniteSets, TLC

VARIABLES
    variant,            \* which copy of the component runs: SoundGrid.tsx or its older copy
    mounted,            \* the mount effect of SoundGrid has run
    isMobileDevice,     \* useState(false), set by the mount effect
    currentlyPlaying,   \* useState<Sound | null>
    audioElement,       \* useState<HTMLAudioElement | null>: index into audios
    error,              \* useState<string | null>
    audios,             \* every Audio object created so far, in creation order;
                        \* req is the number of the handlePlay call that made it
    pendingPlay,        \* handlePlay calls suspended at `await resumeAudioContext()`
    pausedInLoad        \* history: elements that were loading when handlePause ran

vars == <<variant, mounted, isMobileDevice, currentlyPlaying, audioElement,
          error, audios, pendingPlay, pausedInLoad>>

\* createTrimmedAudio(file, trimSettings)
VARIABLES
    trimPc,             \* position of the call: idle, reading, decoding, done, failed
    trimFile,           \* the file argument
    trimSettings,       \* the trimSettings argument
    trimContext,        \* the AudioContext the call created: none, open, closed
    decodeTimer,        \* the setTimeout of the Promise.race: none, armed, fired
    decodePending,      \* decodeAudioData has been called and has not settled
    audioBuffer,        \* the decoded AudioBuffer
    trimmedBuffer,      \* the buffer createBuffer returned, after the copy loop
    wavBlob,            \* the bytes of the Blob the call resolved with
    trimCause,          \* message of the error thrown inside the try block
    trimError           \* message of the error the call rejected with

trimVars == <<trimPc, trimFile, trimSettings, trimContext, decodeTimer, decodePending,
              audioBuffer, trimmedBuffer, wavBlob, trimCause, trimError>>

\* server/index.js
VARIABLES
    files,              \* the regular files under public/, as absolute paths
    lastResponse,       \* the request handled last and the status it answered
    live,               \* history: names a save returned, no DELETE of them succeeded since
    gone                \* history: names whose DELETE succeeded, not saved again since

storeVars == <<files, lastResponse, live, gone>>

\* AudioProvider
VARIABLES
    page,               \* closed, or open (the provider is mounted)
    strictMode,         \* development build: React.StrictMode runs mount effects twice
    sounds,             \* useReducer(audioReducer, initialState)
    localStorage,       \* value of the key 'audio-sounds' (parsed), Absent when missing
    loads,              \* loadSounds calls: savedSounds read at line 104, position
    uuids,              \* number of uuidv4() calls so far
    starts,             \* number of page loads so far
    storedAtStart,      \* history: localStorage when the page was opened
    touched,            \* history: the user changed the catalog since the page was opened
    deleted             \* history: file names of sounds the user deleted

catalogVars == <<page, strictMode, sounds, localStorage, loads, uuids, starts,
                 storedAtStart, touched, deleted>>

\* UploadForm
VARIABLES
    formPc,             \* position of handleSubmit: idle, trimming, reading, saving, added, failed
    isProcessing,       \* processingState.isProcessing
    formError,          \* processingState.error
    formTitle           \* formData.title

formVars == <<formPc, isProcessing, formError, formTitle>>

appVars == <<storeVars, catalogVars, formVars>>

allVars == <<vars, trimVars, appVars>>

\* ---------------------------------------------------------------- bounds
\* handlePlay calls (and so Audio objects) in one behaviour
MaxAudio == 2

\* ---------------------------------------------------------------- values
None == "null"

\* The null value of audioElement (audio objects are numbered from 1).
NoAudio == 0

\* The catalog shown in the grid: two clips with a URL and one without.
Sounds == {"A", "B", "N"}

audioUrl(s) == IF s = "N" THEN "" ELSE "/api/sounds/" \o s

Variants == {"SoundGrid.tsx", "part_000"}

\* DOMException names a rejected play() promise can carry.
PlayErrorNames == {"NotAllowedError", "NotSupportedError"}

DOMException(n) == [name |-> n, message |-> n]

\* An element is audible from the moment its play() promise resolves until
\* it is paused, ends or fails.
Sounding(e) == audios[e].phase = "playing"

Elements == 1..Len(audios)

\* ------------------------------------------------- mobileAudioUtils.ts
\* handleMobileAutoplay: the error it rejects with, given the error of play().
handleMobileAutoplay(err) ==
    IF err.name = "NotAllowedError"
    THEN [name |-> "Error", message |-> "AUTOPLAY_BLOCKED"]
    ELSE err

getMobileAudioErrorMessage(err) ==
    IF err.name = "NotAllowedError"
        THEN "Audio playback blocked. Please tap the button again to play."
    ELSE IF err.name = "NotSupportedError"
        THEN "Audio format not supported on this device."
    ELSE IF err.name = "NetworkError"
        THEN "Network error loading audio. Please check your connection."
    ELSE IF err.name = "AbortError"
        THEN "Audio playback was interrupted."
    ELSE "Audio error: " \o err.message

\* ---------------------------------------------------------------- Init
Init ==
    /\ variant \in Variants
    /\ mounted = FALSE
    /\ isMobileDevice = FALSE
    /\ currentlyPlaying = None
    /\ audioElement = NoAudio
    /\ error = None
    /\ audios = << >>
    /\ pendingPlay = << >>
    /\ pausedInLoad = {}

\* Mount effect: setIsMobileDevice(isMobile()).  The older copy has no
\* device detection and always takes the desktop path.
CheckDevice(m) ==
    /\ ~mounted
    /\ mounted' = TRUE
    /\ isMobileDevice' = (IF variant = "part_000" THEN FALSE ELSE m)
    /\ UNCHANGED <<variant, currentlyPlaying, audioElement, error, audios,
                   pendingPlay, pausedInLoad>>
    /\ UNCHANGED trimVars
    /\ UNCHANGED appVars

\* "Stop currently playing audio": audioElement.pause(); currentTime = 0.
StopAudio(a, ae) ==
    IF ae # NoAudio /\ a[ae].phase = "playing"
    THEN [a EXCEPT ![ae].phase = "paused"]
    ELSE a

\* handlePlay calls made so far; every call creates exactly one Audio object.
Requests == Len(audios) + Len(pendingPlay)

\* new Audio(); listeners attached; src set and load() called when the sound
\* has an audioUrl.
NewAudio(a, s, r) ==
    Append(a, [sound |-> s, req |-> r,
               phase |-> IF audioUrl(s) # "" THEN "loading" ELSE "nosrc"])

NoUrlError(s) == "No audio URL found for sound: " \o s

\* handlePlay(sound).  suspended: the AudioContext is suspended, so the
\* handler waits for resume() before it creates the element.
HandlePlay(s) ==
    /\ mounted
    /\ Requests < MaxAudio
    /\ \E suspended \in (IF variant = "part_000" THEN {FALSE} ELSE BOOLEAN) :
         IF suspended
         THEN /\ audios' = StopAudio(audios, audioElement)
              /\ pendingPlay' = Append(pendingPlay, [sound |-> s, req |-> Requests + 1])
              /\ error' = error
         ELSE /\ audios' = NewAudio(StopAudio(audios, audioElement), s, Requests + 1)
              /\ pendingPlay' = pendingPlay
              /\ error' = IF audioUrl(s) # "" THEN error ELSE NoUrlError(s)
    /\ UNCHANGED <<variant, mounted, isMobileDevice, currentlyPlaying,
                   audioElement, pausedInLoad>>
    /\ UNCHANGED trimVars
    /\ UNCHANGED appVars

\* resume() settled: the suspended handlePlay continues after the await.
ResumeDone ==
    /\ pendingPlay # << >>
    /\ LET s == Head(pendingPlay).sound IN
         /\ audios' = NewAudio(audios, s, Head(pendingPlay).req)
         /\ error' = IF audioUrl(s) # "" THEN error ELSE NoUrlError(s)
    /\ pendingPlay' = Tail(pendingPlay)
    /\ UNCHANGED <<variant, mounted, isMobileDevice, currentlyPlaying,
                   audioElement, pausedInLoad>>
    /\ UNCHANGED trimVars
    /\ UNCHANGED appVars

\* handlePause().
HandlePause ==
    /\ mounted
    /\ IF audioElement # NoAudio
       THEN /\ audios' = StopAudio(audios, audioElement)
            /\ currentlyPlaying' = None
            /\ audioElement' = NoAudio
       ELSE UNCHANGED <<audios, currentlyPlaying, audioElement>>
    /\ pausedInLoad' = pausedInLoad \cup
                         {e \in Elements : audios[e].phase = "loading"}
    /\ UNCHANGED <<variant, mounted, isMobileDevice, error, pendingPlay>>
    /\ UNCHANGED trimVars
    /\ UNCHANGED appVars

\* SoundButton.handlePlayPause: isPlaying is currentlyPlaying?.id === sound.id.
HandlePlayPause(s) ==
    \/ currentlyPlaying = s /\ HandlePause
    \/ currentlyPlaying # s /\ HandlePlay(s)

\* 'canplaythrough' listener: calls play() on the element.
CanPlayThrough(e) ==
    /\ audios[e].phase = "loading"
    /\ audios' = [audios EXCEPT ![e].phase = "starting"]
    /\ UNCHANGED <<variant, mounted, isMobileDevice, currentlyPlaying,
                   audioElement, error, pendingPlay, pausedInLoad>>
    /\ UNCHANGED trimVars
    /\ UNCHANGED appVars

\* play() resolved: setCurrentlyPlaying(sound); setAudioElement(audio).
PlayResolved(e) ==
    /\ audios[e].phase = "starting"
    /\ audios' = [audios EXCEPT ![e].phase = "playing"]
    /\ currentlyPlaying' = audios[e].sound
    /\ audioElement' = e
    /\ UNCHANGED <<variant, mounted, isMobileDevice, error, pendingPlay,
                   pausedInLoad>>
    /\ UNCHANGED trimVars
    /\ UNCHANGED appVars

\* The message the catch block of the canplaythrough listener passes to
\* setError, given the error play() rejected with.
StartErrorMessage(err) ==
    IF variant = "part_000" THEN error
    ELSE IF isMobileDevice
         THEN getMobileAudioErrorMessage(handleMobileAutoplay(err))
         ELSE "Error playing audio: " \o err.message

\* play() rejected with a DOMException named n.
PlayRejected(e, n) ==
    /\ audios[e].phase = "starting"
    /\ audios' = [audios EXCEPT ![e].phase =
                     IF n = "NotAllowedError" THEN "blocked" ELSE "failed"]
    /\ error' = StartErrorMessage(DOMException(n))
    /\ UNCHANGED <<variant, mounted, isMobileDevice, currentlyPlaying,
                   audioElement, pendingPlay, pausedInLoad>>
    /\ UNCHANGED trimVars
    /\ UNCHANGED appVars

\* An 'ended' listener that forgets setAudioElement(null).
EndedKeepsElement(e) ==
    /\ audios[e].phase = "playing"
    /\ audios' = [audios EXCEPT ![e].phase = "ended"]
    /\ currentlyPlaying' = None
    /\ UNCHANGED <<variant, mounted, isMobileDevice, audioElement, error,
                   pendingPlay, pausedInLoad>>
    /\ UNCHANGED trimVars
    /\ UNCHANGED appVars

\* 'ended' listener.
Ended(e) ==
    /\ audios[e].phase = "playing"
    /\ audios' = [audios EXCEPT ![e].phase = "ended"]
    /\ currentlyPlaying' = None
    /\ audioElement' = NoAudio
    /\ UNCHANGED <<variant, mounted, isMobileDevice, error, pendingPlay,
                   pausedInLoad>>
    /\ UNCHANGED trimVars
    /\ UNCHANGED appVars

\* 'error' listener.
ErrorEvent(e) ==
    /\ audios[e].phase \in {"loading", "playing"}
    /\ audios' = [audios EXCEPT ![e].phase = "error"]
    /\ currentlyPlaying' = None
    /\ audioElement' = NoAudio
    /\ error' = "Error playing audio: " \o audios[e].sound
    /\ UNCHANGED <<variant, mounted, isMobileDevice, pendingPlay, pausedInLoad>>
    /\ UNCHANGED trimVars
    /\ UNCHANGED appVars

\* The close button of the error display: setError(null).
DismissError ==
    /\ error # None
    /\ error' = None
    /\ UNCHANGED <<variant, mounted, isMobileDevice, currentlyPlaying,
                   audioElement, audios, pendingPlay, pausedInLoad>>
    /\ UNCHANGED trimVars
    /\ UNCHANGED appVars

Next ==
    \/ \E m \in BOOLEAN : CheckDevice(m)
    \/ \E s \in Sounds : HandlePlayPause(s)
    \/ ResumeDone
    \/ \E e \in Elements : CanPlayThrough(e)
    \/ \E e \in Elements : PlayResolved(e)
    \/ \E e \in Elements, n \in PlayErrorNames : PlayRejected(e, n)
    \/ \E e \in Elements : Ended(e)
    \/ \E e \in Elements : ErrorEvent(e)
    \/ DismissError

\* The value of a variable that holds no AudioBuffer or Blob yet.
Nothing == << >>

\* No createTrimmedAudio call has been made.
TrimIdle ==
    /\ trimPc = "idle"
    /\ trimFile = None
    /\ trimSettings = None
    /\ trimContext = "none"
    /\ decodeTimer = "none"
    /\ decodePending = FALSE
    /\ audioBuffer = Nothing
    /\ trimmedBuffer = Nothing
    /\ wavBlob = Nothing
    /\ trimCause = None
    /\ trimError = None

\* ------------------------------------------------ paths and sound records
\* A path is a sequence of segments; a segment is a name and its extension.
Seg(stem, ext) == [stem |-> stem, ext |-> ext]
Dir(name) == Seg(name, "")

\* path.join(__dirname, '../public/sounds') and the index.html next to it.
soundsDir == <<Dir("public"), Dir("sounds")>>
IndexHtml == <<Dir("public"), Seg("index", ".html")>>

\* A Sound of the catalog (the fields the claims are about).
Sound(id, title, filename, url) ==
    [id |-> id, title |-> title, filename |-> filename, audioUrl |-> url]

\* The catalog shown by the sound grid.
GridSounds ==
    <<Sound("A", "A", "A", audioUrl("A")), Sound("B", "B", "B", audioUrl("B")),
      Sound("N", "N", "N", audioUrl("N"))>>

\* localStorage.getItem('audio-sounds'): null, or the list setItem stored.
Absent == [present |-> FALSE, value |-> << >>]
Item(list) == [present |-> TRUE, value |-> list]

NoResponse == [op |-> "none", name |-> << >>, status |-> 0]

\* The server has started on an empty sounds directory.
ServerIdle ==
    /\ files = {IndexHtml}
    /\ lastResponse = NoResponse
    /\ live = {}
    /\ gone = {}

\* The upload form as useState initialises it.
FormIdle ==
    /\ formPc = "idle"
    /\ isProcessing = FALSE
    /\ formError = None
    /\ formTitle = ""

\* The page is open, its startup load is over and the catalog holds list.
CatalogLoaded(list) ==
    /\ page = "open"
    /\ strictMode = FALSE
    /\ sounds = list
    /\ localStorage = Item(list)
    /\ loads = << >>
    /\ uuids = 0
    /\ starts = 1
    /\ storedAtStart = Item(list)
    /\ touched = FALSE
    /\ deleted = {}

\* The page after its first render: the grid is mounted, no upload is in
\* progress.
GridInit ==
    Init /\ TrimIdle /\ ServerIdle /\ CatalogLoaded(GridSounds) /\ FormIdle

\* The sound grid on its own: no upload is in progress.
Spec == GridInit /\ [][Next]_allVars

TypeOK ==
    /\ variant \in Variants
    /\ mounted \in BOOLEAN
    /\ isMobileDevice \in BOOLEAN
    /\ currentlyPlaying \in Sounds \cup {None}
    /\ audioElement \in Elements \cup {NoAudio}
    /\ Requests <= MaxAudio
    /\ pausedInLoad \subseteq Elements

\* ================================================== trim and encode engine
\* ---------------------------------------------------------------- bounds
\* Times are rationals [n |-> numerator, d |-> denominator] in seconds; the
\* trim sliders are enumerated in ticks of 1/TimeDen s from -1 to MaxTick.
TimeDen == 2
MaxTick == 4
\* longest decoded buffer of the enumerated decodes, in frames
MaxFrames == 3
\* sample values are SampleDen-ths: the float k/SampleDen is the integer k
SampleDen == 4

\* ---------------------------------------------------------------- values
\* The Float32 NaN (what a Float32Array stores when assigned undefined).
NaN == 1000000

\* Sample rates of the decoding AudioContext (scaled down).
SampleRates == {2, 3}

\* Sample values a decode may produce, some of them outside [-1, 1].
Palette == <<0, 1, -1, SampleDen, -SampleDen, SampleDen + 2, -SampleDen - 3>>

Tick(k) == [n |-> k, d |-> TimeDen]

Less(a, b) == a.n * b.d < b.n * a.d

Zero == [n |-> 0, d |-> 1]

\* An AudioBuffer: getChannelData(c)[i] is data[c][i].
Buffer(rate, channels, frames, seed) ==
    [sampleRate |-> rate, numberOfChannels |-> channels, length |-> frames,
     data |-> [c \in 0..channels - 1 |->
                [i \in 0..frames - 1 |->
                   Palette[((i + 3 * c + seed) % Len(Palette)) + 1]]]]

\* The uploaded files: short clips whose audio track decodes to at most
\* MaxFrames frames, a stereo tone of 1000 frames at 44100 Hz, and a mono
\* beep of one frame that lasts one tick.
Files == {"clip", "tone", "beep"}

\* What decodeAudioData may resolve with for the file.
DecodedBuffers(file) ==
    IF file = "tone" THEN {Buffer(44100, 2, 1000, 0)}
    ELSE IF file = "beep" THEN {Buffer(TimeDen, 1, 1, 1)}
    ELSE {Buffer(r, c, f, seed) : r \in SampleRates, c \in 1..2,
                                  f \in 1..MaxFrames,
                                  seed \in 0..Len(Palette) - 1}

\* The trimSettings a call for the file may carry: the form keeps both
\* sliders within the duration the file's metadata reports.
TrimInputs(file) ==
    IF file = "tone"
    THEN {[startTime |-> Zero, endTime |-> [n |-> 1000, d |-> 44100]]}
    ELSE IF file = "beep"
    THEN {[startTime |-> Tick(a), endTime |-> Tick(b)] : a, b \in 0..1}
    ELSE {[startTime |-> Tick(a), endTime |-> Tick(b)] : a, b \in -1..MaxTick}

\* --------------------------------------------------- audioBufferToWav
\* The little-endian bytes of the k-byte unsigned integer n.
LittleEndian(n, k) == [i \in 0..k - 1 |-> (n \div (256 ^ i)) % 256]

\* view.setUint32(offset, n, true) and view.setUint16(offset, n, true).
\* Every 32-bit field written here is below 2^31 (the ArrayBuffer itself is
\* that many bytes long), so the reduction modulo 2^32 leaves it unchanged.
Uint32Bytes(n) == LittleEndian(n, 4)
Uint16Bytes(n) == LittleEndian(n % (2 ^ 16), 2)

\* Math.max(-1, Math.min(1, sample)) for the float sample / den; NaN stays
\* NaN.
ClampAt(sample, den) ==
    IF sample = NaN THEN NaN
    ELSE IF sample > den THEN den
    ELSE IF sample < -den THEN -den
    ELSE sample

Clamp(sample) == ClampAt(sample, SampleDen)

\* sample < 0 ? sample * 0x8000 : sample * 0x7FFF, as setInt16 converts it:
\* NaN becomes 0, the fraction is dropped (towards zero), the result is taken
\* modulo 2^16 into the signed 16-bit range.
\* A scaling that multiplies every sample by 0x8000.
ScaledAtFullScale(sample, den) ==
    IF sample < 0 THEN -(((-sample) * 32768) \div den)
    ELSE (sample * 32768) \div den

ScaledAt(sample, den) ==
    IF sample < 0 THEN -(((-sample) * 32768) \div den)
    ELSE (sample * 32767) \div den

Scaled(sample) == ScaledAt(sample, SampleDen)

ToInt16(n) == ((n + 32768) % 65536) - 32768

\* The 16-bit code stored for the float sample / den.
QuantizeAt(sample, den) ==
    IF ClampAt(sample, den) = NaN THEN 0
    ELSE ToInt16(ScaledAt(ClampAt(sample, den), den))

Quantize(sample) == QuantizeAt(sample, SampleDen)

\* decodeAudioData on 16-bit PCM: the Float32 sample code / 32768, held as
\* the numerator over DecodeDen.
DecodeDen == 32768
DecodePcm16(code) == code

\* view.setInt16(offset, v, true): the two bytes of the two's complement.
Int16Bytes(v) == LittleEndian(v % 65536, 2)

\* writeString(offset, string): the character codes.
CharCodes(s) ==
    CASE s = "RIFF" -> <<82, 73, 70, 70>>
      [] s = "WAVE" -> <<87, 65, 86, 69>>
      [] s = "fmt " -> <<102, 109, 116, 32>>
      [] s = "data" -> <<100, 97, 116, 97>>

\* Header writes whose RIFF size field holds the whole file size.
HeaderWritesFileSize(b) ==
    LET dataLen == b.length * b.numberOfChannels * 2 IN
    << [offset |-> 0,  bytes |-> [i \in 0..3 |-> CharCodes("RIFF")[i + 1]]],
       [offset |-> 4,  bytes |-> Uint32Bytes(44 + dataLen)],
       [offset |-> 8,  bytes |-> [i \in 0..3 |-> CharCodes("WAVE")[i + 1]]],
       [offset |-> 12, bytes |-> [i \in 0..3 |-> CharCodes("fmt ")[i + 1]]],
       [offset |-> 16, bytes |-> Uint32Bytes(16)],
       [offset |-> 20, bytes |-> Uint16Bytes(1)],
       [offset |-> 22, bytes |-> Uint16Bytes(b.numberOfChannels)],
       [offset |-> 24, bytes |-> Uint32Bytes(b.sampleRate)],
       [offset |-> 28, bytes |-> Uint32Bytes(b.sampleRate * b.numberOfChannels * 2)],
       [offset |-> 32, bytes |-> Uint16Bytes(b.numberOfChannels * 2)],
       [offset |-> 34, bytes |-> Uint16Bytes(16)],
       [offset |-> 36, bytes |-> [i \in 0..3 |-> CharCodes("data")[i + 1]]],
       [offset |-> 40, bytes |-> Uint32Bytes(dataLen)] >>

\* The header writes of audioBufferToWav: offset, bytes written there.
HeaderWrites(b) ==
    LET dataLen == b.length * b.numberOfChannels * 2 IN
    << [offset |-> 0,  bytes |-> [i \in 0..3 |-> CharCodes("RIFF")[i + 1]]],
       [offset |-> 4,  bytes |-> Uint32Bytes(36 + dataLen)],
       [offset |-> 8,  bytes |-> [i \in 0..3 |-> CharCodes("WAVE")[i + 1]]],
       [offset |-> 12, bytes |-> [i \in 0..3 |-> CharCodes("fmt ")[i + 1]]],
       [offset |-> 16, bytes |-> Uint32Bytes(16)],
       [offset |-> 20, bytes |-> Uint16Bytes(1)],
       [offset |-> 22, bytes |-> Uint16Bytes(b.numberOfChannels)],
       [offset |-> 24, bytes |-> Uint32Bytes(b.sampleRate)],
       [offset |-> 28, bytes |-> Uint32Bytes(b.sampleRate * b.numberOfChannels * 2)],
       [offset |-> 32, bytes |-> Uint16Bytes(b.numberOfChannels * 2)],
       [offset |-> 34, bytes |-> Uint16Bytes(16)],
       [offset |-> 36, bytes |-> [i \in 0..3 |-> CharCodes("data")[i + 1]]],
       [offset |-> 40, bytes |-> Uint32Bytes(dataLen)] >>

\* A data loop that runs over the channels and, inside, over the frames.
DataWritePlanar(b, k) ==
    LET i       == (k - 1) % b.length
        channel == (k - 1) \div b.length
    IN  [offset |-> 44 + 2 * (k - 1), frame |-> i, channel |-> channel,
         value |-> Quantize(b.data[channel][i])]

\* The k-th setInt16 of the data loop (k from 1): the loop runs over the
\* frames and, inside, over the channels, and adds 2 to offset per write.
DataWrite(b, k) ==
    LET i       == (k - 1) \div b.numberOfChannels
        channel == (k - 1) % b.numberOfChannels
    IN  [offset |-> 44 + 2 * (k - 1), frame |-> i, channel |-> channel,
         value |-> Quantize(b.data[channel][i])]

DataWrites(b) ==
    [k \in 1..b.length * b.numberOfChannels |-> DataWrite(b, k)]

\* The value of `offset` when the data loop has finished.
FinalOffset(b) == 44 + 2 * Len(DataWrites(b))

\* The byte at offset o < 44 after the header writes (the ArrayBuffer is
\* zero filled when it is created).
HeaderByte(b, o) ==
    LET hw   == HeaderWrites(b)
        hits == {h \in DOMAIN hw : (o - hw[h].offset) \in DOMAIN hw[h].bytes}
    IN  IF hits = {} THEN 0
        ELSE LET h == CHOOSE h \in hits : \A g \in hits : g <= h
             IN  hw[h].bytes[o - hw[h].offset]

\* The bytes of the Blob: new ArrayBuffer(44 + length * channels * 2), then
\* the header writes and the data writes.
audioBufferToWav(b) ==
    [o \in 0..(44 + b.length * b.numberOfChannels * 2) - 1 |->
       IF o < 44 THEN HeaderByte(b, o)
       ELSE Int16Bytes(DataWrite(b, ((o - 44) \div 2) + 1).value)[(o - 44) % 2]]

\* ---------------------------------------------------- createTrimmedAudio
\* "Validate trim settings": the message of the error thrown, or None.
ValidateTrimSettings(ts) ==
    IF Less(ts.startTime, Zero) \/ ~Less(Zero, ts.endTime)
    THEN "Invalid trim settings: start time must be >= 0, end time must be > 0"
    ELSE IF ~Less(ts.startTime, ts.endTime)
    THEN "Invalid trim settings: start time must be less than end time"
    ELSE None

\* Math.round(time * sampleRate) in place of Math.floor.
SampleIndexRounded(time, sampleRate) ==
    (2 * time.n * sampleRate + time.d) \div (2 * time.d)

\* Math.floor(time * sampleRate)
SampleIndex(time, sampleRate) == (time.n * sampleRate) \div time.d

startSample == SampleIndex(trimSettings.startTime, audioBuffer.sampleRate)
endSample == SampleIndex(trimSettings.endTime, audioBuffer.sampleRate)

\* The copy loop: trimmedData[i] = channelData[startSample + i]; an index
\* past the end of channelData reads undefined, which is stored as NaN.
CopyTrimmed(src, first, length) ==
    [sampleRate |-> src.sampleRate,
     numberOfChannels |-> src.numberOfChannels,
     length |-> length,
     data |-> [c \in 0..src.numberOfChannels - 1 |->
                [i \in 0..length - 1 |->
                   IF first + i < src.length THEN src.data[c][first + i]
                   ELSE NaN]]]

\* The catch block: every error is replaced by one message.
TrimFailure == "Failed to create trimmed audio"

\* createTrimmedAudio(file, ts) up to its first await.
CreateTrimmedAudioCall(file, ts) ==
    /\ trimPc = "idle"
    /\ trimFile' = file
    /\ trimSettings' = ts
    /\ IF ValidateTrimSettings(ts) # None
       THEN /\ trimPc' = "failed"
            /\ trimCause' = ValidateTrimSettings(ts)
            /\ trimError' = TrimFailure
            /\ UNCHANGED trimContext
       ELSE /\ trimPc' = "reading"
            /\ trimContext' = "open"
            /\ UNCHANGED <<trimCause, trimError>>
    /\ UNCHANGED <<decodeTimer, decodePending, audioBuffer, trimmedBuffer, wavBlob>>

\* A call of createTrimmedAudio on its own.
CreateTrimmedAudio(file, ts) ==
    /\ CreateTrimmedAudioCall(file, ts)
    /\ UNCHANGED vars
    /\ UNCHANGED appVars

\* file.arrayBuffer() resolved: decodeAudioData is called and the timer of
\* the Promise.race is set.
FileRead ==
    /\ trimPc = "reading"
    /\ trimPc' = "decoding"
    /\ decodePending' = TRUE
    /\ decodeTimer' = "armed"
    /\ UNCHANGED <<trimFile, trimSettings, trimContext, audioBuffer, trimmedBuffer,
                   wavBlob, trimCause, trimError>>
    /\ UNCHANGED vars
    /\ UNCHANGED appVars

\* file.arrayBuffer() rejected.
FileReadFailed ==
    /\ trimPc = "reading"
    /\ trimPc' = "failed"
    /\ trimCause' = "NotReadableError"
    /\ trimError' = TrimFailure
    /\ UNCHANGED <<trimFile, trimSettings, trimContext, decodeTimer, decodePending,
                   audioBuffer, trimmedBuffer, wavBlob>>
    /\ UNCHANGED vars
    /\ UNCHANGED appVars

\* decodeAudioData resolved with buffer b.  When the race is still open the
\* call goes on to the end: sample range, createBuffer (which throws
\* NotSupportedError for a length that is not positive), the copy loop and
\* audioBufferToWav.
DecodeResolved(b) ==
    /\ decodePending
    /\ decodePending' = FALSE
    /\ IF trimPc = "decoding"
       THEN LET first  == SampleIndex(trimSettings.startTime, b.sampleRate)
                last   == SampleIndex(trimSettings.endTime, b.sampleRate)
                length == last - first
            IN  /\ audioBuffer' = b
                /\ IF length <= 0
                   THEN /\ trimPc' = "failed"
                        /\ trimCause' = "NotSupportedError"
                        /\ trimError' = TrimFailure
                        /\ UNCHANGED <<trimmedBuffer, wavBlob>>
                   ELSE /\ trimPc' = "done"
                        /\ trimmedBuffer' = CopyTrimmed(b, first, length)
                        /\ wavBlob' = audioBufferToWav(CopyTrimmed(b, first, length))
                        /\ UNCHANGED <<trimCause, trimError>>
       ELSE UNCHANGED <<trimPc, audioBuffer, trimmedBuffer, wavBlob,
                        trimCause, trimError>>
    /\ UNCHANGED <<trimFile, trimSettings, trimContext, decodeTimer>>
    /\ UNCHANGED vars
    /\ UNCHANGED appVars

\* decodeAudioData rejected (EncodingError: the data cannot be decoded).
DecodeRejected ==
    /\ decodePending
    /\ decodePending' = FALSE
    /\ IF trimPc = "decoding"
       THEN /\ trimPc' = "failed"
            /\ trimCause' = "EncodingError"
            /\ trimError' = TrimFailure
       ELSE UNCHANGED <<trimPc, trimCause, trimError>>
    /\ UNCHANGED <<trimFile, trimSettings, trimContext, decodeTimer, audioBuffer,
                   trimmedBuffer, wavBlob>>
    /\ UNCHANGED vars
    /\ UNCHANGED appVars

\* A timer whose rejection is acted on although the race is already decided.
DecodeTimeoutUnguarded ==
    /\ decodeTimer = "armed"
    /\ decodeTimer' = "fired"
    /\ trimPc' = "failed"
    /\ trimCause' = "Audio decoding timeout"
    /\ trimError' = TrimFailure
    /\ UNCHANGED <<trimFile, trimSettings, trimContext, decodePending, audioBuffer,
                   trimmedBuffer, wavBlob>>
    /\ UNCHANGED vars
    /\ UNCHANGED appVars

\* The 30000 ms timer fires: reject(new Error('Audio decoding timeout')).
\* It is never cleared, so it also fires after the race has been decided.
DecodeTimeout ==
    /\ decodeTimer = "armed"
    /\ decodeTimer' = "fired"
    /\ IF trimPc = "decoding"
       THEN /\ trimPc' = "failed"
            /\ trimCause' = "Audio decoding timeout"
            /\ trimError' = TrimFailure
       ELSE UNCHANGED <<trimPc, trimCause, trimError>>
    /\ UNCHANGED <<trimFile, trimSettings, trimContext, decodePending, audioBuffer,
                   trimmedBuffer, wavBlob>>
    /\ UNCHANGED vars
    /\ UNCHANGED appVars

TrimNext ==
    \/ \E file \in Files : \E ts \in TrimInputs(file) : CreateTrimmedAudio(file, ts)
    \/ FileRead
    \/ FileReadFailed
    \/ \E b \in DecodedBuffers(trimFile) : DecodeResolved(b)
    \/ DecodeRejected
    \/ DecodeTimeout

\* The upload form is open over the unclicked sound grid.
UploadInit ==
    /\ Init /\ variant = "SoundGrid.tsx"
    /\ TrimIdle /\ ServerIdle /\ CatalogLoaded(GridSounds) /\ FormIdle

\* One upload: a single call of createTrimmedAudio.
SpecTrim == UploadInit /\ [][TrimNext]_allVars

TrimTypeOK ==
    /\ trimPc \in {"idle", "reading", "decoding", "done", "failed"}
    /\ trimContext \in {"none", "open", "closed"}
    /\ decodeTimer \in {"none", "armed", "fired"}
    /\ decodePending \in BOOLEAN
    /\ (trimPc = "done") = (wavBlob # Nothing)
    /\ (trimPc = "failed") = (trimError # None)

\* ============================================================ sound store
\* Titles a save-trimmed request may carry; Sanitize is
\* title.replace(/[^a-zA-Z0-9]/g, '_') on them.
Titles == {"hit", "my hit"}
Sanitize(title) == IF title = "my hit" THEN "my_hit" ELSE title

\* Date.now() + '-' + Math.round(Math.random() * 1E9): two requests may draw
\* the same suffix.
Suffixes == {"1700000000000-1", "1700000000000-2"}

\* finalFilename of a save.
FinalFilename(title, suffix) == Seg(Sanitize(title) \o "_" \o suffix, ".wav")

\* path.join(dir, name): the segments of name appended, '..' removing the
\* segment before it.
RECURSIVE Join(_, _)
Join(dir, name) ==
    IF name = << >> THEN dir
    ELSE IF Head(name) = Dir("..")
         THEN Join(IF dir = << >> THEN dir ELSE SubSeq(dir, 1, Len(dir) - 1),
                   Tail(name))
         ELSE Join(Append(dir, Head(name)), Tail(name))

\* The directories under public/.
Directories == {<<Dir("public")>>, soundsDir}

\* fs.existsSync(path)
Exists(fs, path) == path \in fs \/ path \in Directories

\* The extensions GET /api/sounds accepts.
AudioExtensions == {".mp3", ".wav", ".m4a", ".ogg"}

\* The file names GET /api/sounds answers with: readdirSync(soundsDir)
\* filtered by extension.
Listed(fs) ==
    {p[3] : p \in {q \in fs : /\ Len(q) = 3
                              /\ SubSeq(q, 1, 2) = soundsDir
                              /\ q[3].ext \in AudioExtensions}}

\* The :filename parameters of the requests: the name of a stored clip, the
\* same file reached through '..%2Fsounds%2F', the page next to the sounds
\* directory, and a name nothing was stored under.
RequestNames ==
    {<<FinalFilename(t, u)>> : t \in Titles, u \in Suffixes}
      \cup {<<Dir(".."), Dir("sounds"), FinalFilename(t, u)>> :
               t \in {"hit"}, u \in Suffixes}
      \cup {<<Dir(".."), Seg("index", ".html")>>, <<Seg("ghost", ".wav")>>}

\* The status GET /api/sounds/:filename answers with.
GetStatus(fs, name) ==
    LET filePath == Join(soundsDir, name) IN
    IF ~Exists(fs, filePath) THEN 404
    ELSE IF filePath \in Directories THEN 500 ELSE 200

\* The status DELETE /api/sounds/:filename answers with.
DeleteStatus(fs, name) ==
    LET filePath == Join(soundsDir, name) IN
    IF ~Exists(fs, filePath) THEN 404
    ELSE IF filePath \in Directories THEN 500 ELSE 200

\* The status POST /api/sounds/save-trimmed answers with: 400 without
\* audioData or filename, 500 when title is missing (title.replace throws) or
\* writeFileSync throws.
SaveStatus(body, diskOk) ==
    IF body.audioData = "" \/ body.filename = "" THEN 400
    ELSE IF body.title = None \/ ~diskOk THEN 500
    ELSE 200

\* The save-trimmed request bodies.
SaveBodies ==
    {[audioData |-> d, filename |-> "clip_trimmed.wav", title |-> t] :
        d \in {"", "data:audio/wav;base64,UklGRg=="}, t \in Titles \cup {None}}

\* The files after the save-trimmed handler has run.
FilesAfterSave(fs, body, suffix, diskOk) ==
    IF SaveStatus(body, diskOk) = 200
    THEN fs \cup {Append(soundsDir, FinalFilename(body.title, suffix))}
    ELSE fs

\* The handler of POST /api/sounds/save-trimmed.
SaveHandled(body, suffix, diskOk) ==
    LET status == SaveStatus(body, diskOk)
        name   == IF body.title = None THEN << >>
                  ELSE <<FinalFilename(body.title, suffix)>>
    IN  /\ files' = FilesAfterSave(files, body, suffix, diskOk)
        /\ lastResponse' = [op |-> "save", name |-> name, status |-> status]
        /\ live' = IF status = 200 THEN live \cup {name[1]} ELSE live
        /\ gone' = IF status = 200 THEN gone \ {name[1]} ELSE gone

\* POST /api/sounds/save-trimmed
ServerSave(body, suffix, diskOk) ==
    /\ SaveHandled(body, suffix, diskOk)
    /\ UNCHANGED <<catalogVars, formVars>>
    /\ UNCHANGED <<vars, trimVars>>

\* GET /api/sounds
ServerList ==
    /\ lastResponse' = [op |-> "list", name |-> << >>, status |-> 200]
    /\ UNCHANGED <<files, live, gone>>
    /\ UNCHANGED <<catalogVars, formVars>>
    /\ UNCHANGED <<vars, trimVars>>

\* GET /api/sounds/:filename
ServerGet(name) ==
    /\ lastResponse' = [op |-> "get", name |-> name,
                        status |-> GetStatus(files, name)]
    /\ UNCHANGED <<files, live, gone>>
    /\ UNCHANGED <<catalogVars, formVars>>
    /\ UNCHANGED <<vars, trimVars>>

\* DELETE /api/sounds/:filename
ServerDelete(name) ==
    LET filePath == Join(soundsDir, name)
        status   == DeleteStatus(files, name)
    IN  /\ files' = IF status = 200 THEN files \ {filePath} ELSE files
        /\ lastResponse' = [op |-> "delete", name |-> name, status |-> status]
        /\ live' = IF status = 200 /\ Len(name) = 1 THEN live \ {name[1]}
                   ELSE live
        /\ gone' = IF status = 200 /\ Len(name) = 1 THEN gone \cup {name[1]}
                   ELSE gone
        /\ UNCHANGED <<catalogVars, formVars>>
        /\ UNCHANGED <<vars, trimVars>>

StoreNext ==
    \/ \E body \in SaveBodies, u \in Suffixes, diskOk \in BOOLEAN :
          ServerSave(body, u, diskOk)
    \/ ServerList
    \/ \E name \in RequestNames : ServerGet(name)
    \/ \E name \in RequestNames : ServerDelete(name)

\* The server and its clients' requests; no page of the app takes part.
StoreInit ==
    /\ Init /\ variant = "SoundGrid.tsx"
    /\ TrimIdle /\ ServerIdle /\ CatalogLoaded(GridSounds) /\ FormIdle

SpecStore == StoreInit /\ [][StoreNext]_allVars

\* ================================================= catalog and upload form
\* ---------------------------------------------------------------- bounds
\* page loads in one behaviour
MaxStarts == 2
\* uuidv4() calls after which no further upload is started
MaxUuid == 2

\* ---------------------------------------------------------------- values
\* An audioUrl: the prefix startsWith() is asked about, and the rest.
Url(prefix, rest) == [prefix |-> prefix, rest |-> rest]

\* uuidv4(): the n-th identifier.
Uuid(n) == "uuid-" \o ToString(n)

\* The name of a stored file as the string the server answers with.
FileName(seg) == seg.stem \o seg.ext

\* A clip saved during an earlier visit.
OldClip == Seg("old_1600000000000-7", ".wav")

\* What the sounds directory may hold when the page is first opened.
InitialFiles == {{IndexHtml}, {IndexHtml, Append(soundsDir, OldClip)}}

\* What localStorage may hold under 'audio-sounds' when the page is first
\* opened: nothing, an empty list, a recorded clip kept as a blob URL, a
\* server clip next to entries whose audioUrl is a bare path or is empty.
StoredChoices ==
    {Absent, Item(<< >>),
     Item(<<Sound("s1", "rec", "rec.wav", Url("blob:", "http://localhost/1"))>>),
     Item(<<Sound("s2", "old", FileName(OldClip),
             Url("/api/sounds/", FileName(OldClip))),
       Sound("s3", "pub", "pub.mp3", Url("/sounds/", "pub.mp3")),
       Sound("s4", "web", "web.mp3", Url("http", "://example.org/web.mp3")),
       Sound("s5", "nil", "nil.mp3", Url("", ""))>>)}

\* The filter of loadSounds: audioUrl starts with 'blob:', '/api/sounds/' or
\* 'http'.
ValidAudioPath(sound) ==
    sound.audioUrl.prefix \in {"blob:", "/api/sounds/", "http"}

\* The sounds loadSounds dispatches from the saved value.
ValidSounds(saved) == SelectSeq(saved.value, ValidAudioPath)

\* The members of a set of file names, as readdirSync orders them.
RECURSIVE Sorted(_)
Sorted(S) ==
    IF S = {} THEN << >>
    ELSE LET x == CHOOSE y \in S : TRUE IN <<x>> \o Sorted(S \ {x})

\* serverSounds.map(...): the Sound made of each listed file, with new ids
\* from n + 1 on.
FromServer(names, n) ==
    [i \in 1..Len(names) |->
        Sound(Uuid(n + i), names[i].stem, FileName(names[i]),
              Url("/api/sounds/", FileName(names[i])))]

\* audioReducer
AddSoundTo(list, sound) == Append(list, sound)
DeleteFrom(list, id) == LET Keep(s) == s.id # id IN SelectSeq(list, Keep)

\* The file names of the sounds in list.
FileNames(list) == {list[i].filename : i \in DOMAIN list}

\* ------------------------------------------------------- AudioProvider
\* The browser opens the page: the provider mounts with an empty catalog;
\* the load effect calls loadSounds(), which reads localStorage and starts
\* its fetch, and the save effect writes the empty catalog.  A development
\* build runs both effects a second time.
OpenPage ==
    /\ page = "closed"
    /\ starts < MaxStarts
    /\ page' = "open"
    /\ starts' = starts + 1
    /\ storedAtStart' = localStorage
    /\ touched' = FALSE
    /\ sounds' = << >>
    /\ loads' = IF strictMode
                THEN << [saved |-> localStorage, pc |-> "fetching"],
                        [saved |-> Item(<< >>), pc |-> "fetching"] >>
                ELSE << [saved |-> localStorage, pc |-> "fetching"] >>
    /\ localStorage' = Item(<< >>)
    /\ UNCHANGED <<strictMode, uuids, deleted>>
    /\ UNCHANGED <<storeVars, formVars>>
    /\ UNCHANGED <<vars, trimVars>>

\* The fetch of the i-th loadSounds call has settled; ok: GET /api/sounds
\* answered 200.  With a non-empty answer the converted sounds are written
\* to localStorage and dispatched; otherwise the saved value, when there is
\* one, is filtered and dispatched.  The save effect follows each dispatch.
LoadResponded(i, ok) ==
    /\ page = "open"
    /\ i \in DOMAIN loads
    /\ loads[i].pc = "fetching"
    /\ LET names    == Sorted(Listed(files))
           fromList == ok /\ names # << >>
           next     == IF fromList THEN FromServer(names, uuids)
                       ELSE IF loads[i].saved.present
                       THEN ValidSounds(loads[i].saved) ELSE sounds
       IN  /\ sounds' = next
           /\ localStorage' = IF fromList \/ loads[i].saved.present
                              THEN Item(next) ELSE localStorage
           /\ uuids' = IF fromList THEN uuids + Len(names) ELSE uuids
           /\ loads' = [loads EXCEPT ![i] = [saved |-> loads[i].saved,
                                             pc |-> IF fromList THEN "listed"
                                                    ELSE "fallback"]]
    /\ lastResponse' = [op |-> "list", name |-> << >>,
                        status |-> IF ok THEN 200 ELSE 500]
    /\ UNCHANGED <<files, live, gone>>
    /\ UNCHANGED <<page, strictMode, starts, storedAtStart, touched, deleted>>
    /\ UNCHANGED formVars
    /\ UNCHANGED <<vars, trimVars>>

\* deleteSound(id): DELETE_SOUND, then the save effect.
DeleteSound(id) ==
    /\ page = "open"
    /\ \E i \in DOMAIN sounds : sounds[i].id = id
    /\ sounds' = DeleteFrom(sounds, id)
    /\ localStorage' = Item(sounds')
    /\ deleted' = deleted \cup
                    {[filename |-> sounds[i].filename, start |-> starts] :
                        i \in {j \in DOMAIN sounds : sounds[j].id = id}}
    /\ touched' = TRUE
    /\ UNCHANGED <<page, strictMode, loads, uuids, starts, storedAtStart>>
    /\ UNCHANGED <<storeVars, formVars>>
    /\ UNCHANGED <<vars, trimVars>>

\* clearSounds(): CLEAR_SOUNDS, then the save effect.
ClearSounds ==
    /\ page = "open"
    /\ sounds # << >>
    /\ sounds' = << >>
    /\ localStorage' = Item(sounds')
    /\ deleted' = deleted \cup
                    {[filename |-> f, start |-> starts] : f \in FileNames(sounds)}
    /\ touched' = TRUE
    /\ UNCHANGED <<page, strictMode, loads, uuids, starts, storedAtStart>>
    /\ UNCHANGED <<storeVars, formVars>>
    /\ UNCHANGED <<vars, trimVars>>

\* ---------------------------------------------------------- UploadForm
\* The locals of a createTrimmedAudio call that has settled and whose
\* result handleSubmit has consumed.
TrimReset ==
    /\ trimPc' = "idle"
    /\ trimFile' = None
    /\ trimSettings' = None
    /\ trimContext' = "none"
    /\ decodeTimer' = "none"
    /\ decodePending' = FALSE
    /\ audioBuffer' = Nothing
    /\ trimmedBuffer' = Nothing
    /\ wavBlob' = Nothing
    /\ trimCause' = None
    /\ trimError' = None

\* handleSubmit up to `await createTrimmedAudio(...)`.  The submit button is
\* disabled while isProcessing or without a file and a title.
Submit(title, ts) ==
    /\ page = "open"
    /\ formPc \in {"idle", "failed"}
    /\ ~isProcessing
    /\ uuids < MaxUuid
    /\ formPc' = "trimming"
    /\ isProcessing' = TRUE
    /\ formError' = None
    /\ formTitle' = title
    /\ CreateTrimmedAudioCall("beep", ts)
    /\ UNCHANGED <<storeVars, catalogVars>>
    /\ UNCHANGED vars

\* createTrimmedAudio has settled.  Rejected: the outer catch sets error.
\* Resolved: a FileReader is created and readAsDataURL(blob) is called.
TrimSettled ==
    /\ formPc = "trimming"
    /\ trimPc \in {"done", "failed"}
    /\ IF trimPc = "failed"
       THEN /\ formPc' = "failed"
            /\ formError' = trimError
            /\ TrimReset
       ELSE /\ formPc' = "reading"
            /\ UNCHANGED formError
            /\ UNCHANGED trimVars
    /\ UNCHANGED <<isProcessing, formTitle>>
    /\ UNCHANGED <<storeVars, catalogVars>>
    /\ UNCHANGED vars

\* reader.onload up to `await fetch('/api/sounds/save-trimmed', ...)`.
ReaderLoaded ==
    /\ formPc = "reading"
    /\ formPc' = "saving"
    /\ UNCHANGED <<isProcessing, formError, formTitle>>
    /\ UNCHANGED <<storeVars, catalogVars>>
    /\ UNCHANGED <<vars, trimVars>>

\* reader.onerror
ReaderError ==
    /\ formPc = "reading"
    /\ formPc' = "failed"
    /\ formError' = "Failed to read audio file"
    /\ isProcessing' = FALSE
    /\ TrimReset
    /\ UNCHANGED formTitle
    /\ UNCHANGED <<storeVars, catalogVars>>
    /\ UNCHANGED vars

\* The body handleSubmit posts.
SubmitBody ==
    [audioData |-> "data:audio/wav;base64,UklGRg==",
     filename |-> formTitle \o "_trimmed.wav", title |-> formTitle]

\* The sound handleSubmit passes to addSound, as ADD_SOUND stores it.
UploadedSound(suffix) ==
    Sound(Uuid(uuids + 1), formTitle, FileName(FinalFilename(formTitle, suffix)),
          Url("/api/sounds/", FileName(FinalFilename(formTitle, suffix))))

\* A response handler that calls addSound without looking at response.ok.
SaveRespondedUnchecked(suffix, diskOk) ==
    /\ formPc = "saving"
    /\ SaveHandled(SubmitBody, suffix, diskOk)
    /\ sounds' = AddSoundTo(sounds, UploadedSound(suffix))
    /\ localStorage' = Item(sounds')
    /\ uuids' = uuids + 1
    /\ touched' = TRUE
    /\ deleted' = {d \in deleted :
                     d.filename # FileName(FinalFilename(formTitle, suffix))}
    /\ formPc' = "added"
    /\ UNCHANGED <<isProcessing, formError>>
    /\ TrimReset
    /\ UNCHANGED formTitle
    /\ UNCHANGED <<page, strictMode, loads, starts, storedAtStart>>
    /\ UNCHANGED vars

\* The server has handled the POST and the response has arrived.  ok:
\* addSound (ADD_SOUND, then the save effect).  Otherwise the catch block of
\* reader.onload sets error and clears isProcessing.
SaveResponded(suffix, diskOk) ==
    /\ formPc = "saving"
    /\ SaveHandled(SubmitBody, suffix, diskOk)
    /\ IF SaveStatus(SubmitBody, diskOk) = 200
       THEN /\ sounds' = AddSoundTo(sounds, UploadedSound(suffix))
            /\ localStorage' = Item(sounds')
            /\ uuids' = uuids + 1
            /\ touched' = TRUE
            /\ deleted' = {d \in deleted :
                             d.filename # FileName(FinalFilename(formTitle, suffix))}
            /\ formPc' = "added"
            /\ UNCHANGED <<isProcessing, formError>>
       ELSE /\ formPc' = "failed"
            /\ formError' = "Server error: 500"
            /\ isProcessing' = FALSE
            /\ UNCHANGED <<sounds, localStorage, uuids, touched, deleted>>
    /\ TrimReset
    /\ UNCHANGED formTitle
    /\ UNCHANGED <<page, strictMode, loads, starts, storedAtStart>>
    /\ UNCHANGED vars

\* fetch rejected: the request did not reach the server.
SaveFailed ==
    /\ formPc = "saving"
    /\ formPc' = "failed"
    /\ formError' = "Failed to fetch"
    /\ isProcessing' = FALSE
    /\ TrimReset
    /\ UNCHANGED formTitle
    /\ UNCHANGED <<storeVars, catalogVars>>
    /\ UNCHANGED vars

\* onClose: 1500 ms after a successful save, or the close button after a
\* failure; the next form starts from its initial state.
CloseForm ==
    /\ formPc \in {"added", "failed"}
    /\ formPc' = "idle"
    /\ isProcessing' = FALSE
    /\ formError' = None
    /\ formTitle' = ""
    /\ UNCHANGED <<storeVars, catalogVars>>
    /\ UNCHANGED <<vars, trimVars>>

\* The tab is closed or reloaded: the React state is gone, localStorage and
\* the server's files stay.
ClosePage ==
    /\ page = "open"
    /\ page' = "closed"
    /\ sounds' = << >>
    /\ loads' = << >>
    /\ formPc' = "idle"
    /\ isProcessing' = FALSE
    /\ formError' = None
    /\ formTitle' = ""
    /\ TrimReset
    /\ UNCHANGED <<strictMode, localStorage, uuids, starts, storedAtStart,
                   touched, deleted>>
    /\ UNCHANGED storeVars
    /\ UNCHANGED vars

\* The provider across page loads: startup loads, deletions, reloads.
CatalogNext ==
    \/ OpenPage
    \/ \E i \in 1..2, ok \in BOOLEAN : LoadResponded(i, ok)
    \/ \E id \in {Uuid(n) : n \in 1..uuids} \cup {"s1", "s2", "s3", "s4", "s5"} :
          DeleteSound(id)
    \/ ClearSounds
    \/ ClosePage

\* The browser has not opened the page yet.
CatalogInit ==
    /\ Init /\ variant = "SoundGrid.tsx"
    /\ TrimIdle
    /\ FormIdle
    /\ files \in InitialFiles
    /\ lastResponse = NoResponse
    /\ live = {}
    /\ gone = {}
    /\ page = "closed"
    /\ strictMode \in BOOLEAN
    /\ sounds = << >>
    /\ localStorage \in StoredChoices
    /\ loads = << >>
    /\ uuids = 0
    /\ starts = 0
    /\ storedAtStart = Absent
    /\ touched = FALSE
    /\ deleted = {}

SpecCatalog == CatalogInit /\ [][CatalogNext]_allVars

\* The upload form on an open page whose startup load has finished.
FormNext ==
    \/ \E title \in Titles, ts \in TrimInputs("beep") : Submit(title, ts)
    \/ FileRead
    \/ FileReadFailed
    \/ \E b \in DecodedBuffers("beep") : DecodeResolved(b)
    \/ DecodeRejected
    \/ DecodeTimeout
    \/ TrimSettled
    \/ ReaderLoaded
    \/ ReaderError
    \/ \E u \in Suffixes, diskOk \in BOOLEAN : SaveResponded(u, diskOk)
    \/ SaveFailed
    \/ CloseForm

\* The catalog holds the clip of an earlier visit and the form is closed.
FormInit ==
    /\ Init /\ variant = "SoundGrid.tsx"
    /\ TrimIdle
    /\ FormIdle
    /\ files = {IndexHtml, Append(soundsDir, OldClip)}
    /\ lastResponse = NoResponse
    /\ live = {}
    /\ gone = {}
    /\ CatalogLoaded(<<Sound("s2", "old", FileName(OldClip),
                             Url("/api/sounds/", FileName(OldClip)))>>)

SpecForm == FormInit /\ [][FormNext]_allVars

\* ----------------------------------------------- grid over the catalog
\* The sound grid with its delete buttons and the Clear All button: a card
\* is there to be clicked while its sound is in the catalog.
GridNext ==
    \/ \E m \in BOOLEAN : CheckDevice(m)
    \/ \E s \in Sounds : s \in {sounds[i].id : i \in DOMAIN sounds} /\ HandlePlayPause(s)
    \/ ResumeDone
    \/ \E e \in Elements : CanPlayThrough(e)
    \/ \E e \in Elements : PlayResolved(e)
    \/ \E e \in Elements, n \in PlayErrorNames : PlayRejected(e, n)
    \/ \E e \in Elements : Ended(e)
    \/ \E e \in Elements : ErrorEvent(e)
    \/ DismissError
    \/ \E id \in Sounds : DeleteSound(id)
    \/ ClearSounds

SpecGrid == GridInit /\ [][GridNext]_allVars

\* ------------------------------------------------------------ properties
SoundingSet(a) == {e \in DOMAIN a : a[e].phase = "playing"}

\* play() of the element has resolved at some point.
Completed(e) == audios[e].phase \in {"playing", "paused", "ended"}

\* A handlePlay call for another clip was made after the one that created e.
Superseded(e) ==
    \/ \E f \in Elements :
          audios[f].req > audios[e].req /\ audios[f].sound # audios[e].sound
    \/ \E i \in DOMAIN pendingPlay :
          pendingPlay[i].req > audios[e].req
            /\ pendingPlay[i].sound # audios[e].sound

\* C1: in every reachable state at most one audio element is sounding.
C1_AtMostOneSounding == Cardinality(SoundingSet(audios)) <= 1

\* C2: when handlePlay(A) and then handlePlay(B) for another clip are issued
\* before A has started, then at the step that completes the second of the two
\* loads the clip recorded as playing is B and A's element is not sounding.
C2_LaterRequestWins ==
    [][\A e1, e2 \in Elements :
         ( /\ audios[e1].req < audios[e2].req
           /\ audios[e1].sound # audios[e2].sound
           /\ \/ PlayResolved(e1) /\ Completed(e2)
              \/ PlayResolved(e2) /\ Completed(e1) /\ Requests = 2 )
         => /\ currentlyPlaying' = audios[e2].sound
            /\ audios'[e1].phase # "playing"]_vars

\* C3: an element whose load was superseded by a handlePlay for another clip
\* never has its playback started when its canplaythrough fires.
C3_SupersededLoadDiscarded ==
    [][\A e \in Elements :
         (audios[e].phase = "loading" /\ Superseded(e))
         => audios'[e].phase \notin {"starting", "playing"}]_vars

\* The last handlePlay call was for clip s and its start was rejected by the
\* autoplay policy.
BlockedPending(s) ==
    \E e \in Elements : /\ audios[e].req = Requests
                        /\ audios[e].sound = s
                        /\ audios[e].phase = "blocked"

\* C4: after an autoplay-blocked start the next handlePlay for the same clip
\* starts the already loaded element: no new Audio object, no second load().
C4_BlockedRetryReusesSession ==
    [][\A s \in Sounds :
         (BlockedPending(s) /\ HandlePlay(s))
         => /\ Len(audios') = Len(audios)
            /\ pendingPlay' = pendingPlay
            /\ \E e \in Elements : /\ audios[e].req = Requests
                                   /\ audios'[e].phase \in {"starting", "playing"}]_vars

\* C5: a start that handleMobileAutoplay rejects with AUTOPLAY_BLOCKED does
\* not set the user-facing error.
C5_AutoplayBlockedNotSurfaced ==
    [][\A e \in Elements :
         (isMobileDevice /\ PlayRejected(e, "NotAllowedError"))
         => error' = error]_vars

\* C6: after an 'error' event or a start rejection that is not an autoplay
\* block, no clip is recorded as playing, an error message is set and the
\* element is not started again.
C6_GenuineFailureIsTerminal ==
    [][\A e \in Elements :
         (ErrorEvent(e) \/ PlayRejected(e, "NotSupportedError"))
         => /\ currentlyPlaying' = None
            /\ error' # None
            /\ audios'[e].phase \in {"error", "failed"}]_vars

\* C7: handlePause() changes nothing when no element is sounding.
C7_PauseNoOpWhenNotPlaying ==
    [][(HandlePause /\ SoundingSet(audios) = {})
         => UNCHANGED <<currentlyPlaying, audioElement, audios>>]_vars

\* C8: an element that was loading when handlePause() ran does not end up
\* playing.
C8_PauseNotLostDuringLoad ==
    \A e \in pausedInLoad : audios[e].phase # "playing"

\* C9: handlePlay(B) while another clip A is active leaves currentlyPlaying,
\* audioElement and the sounding elements as handlePause() followed by
\* handlePlay(B) would.
C9_SwitchEqualsStopThenPlay ==
    [][\A s \in Sounds :
         ( /\ audioElement # NoAudio
           /\ audios[audioElement].sound # s
           /\ HandlePlay(s) )
         => LET afterPause == StopAudio(audios, audioElement)
                afterPlay  == StopAudio(afterPause, NoAudio)
            IN  /\ currentlyPlaying' = None
                /\ audioElement' = NoAudio
                /\ SoundingSet(audios') = SoundingSet(afterPlay)]_vars

\* C10: when the current element delivers 'ended', no clip is recorded as
\* playing afterwards and the manager holds no audio element.
C10_EndedClearsSession ==
    [][\A e \in Elements :
         (audioElement = e /\ Ended(e))
         => /\ currentlyPlaying' = None
            /\ audioElement' = NoAudio
            /\ audios'[e].phase = "ended"]_vars

\* The only element ever created has played to its end.
C10_Witness ==
    /\ Len(audios) = 1
    /\ pendingPlay = << >>
    /\ audios[1].phase = "ended"
    /\ currentlyPlaying = None
    /\ audioElement = NoAudio

\* A step on which a playback failure is handled: an 'error' event, a
\* rejected play(), or a handlePlay that finds no audioUrl.
PlaybackFailureStep ==
    \/ \E e \in Elements : ErrorEvent(e)
    \/ \E e \in Elements, n \in PlayErrorNames : PlayRejected(e, n)
    \/ \E s \in Sounds :
          /\ audioUrl(s) = ""
          /\ Len(audios') = Len(audios) + 1
          /\ HandlePlay(s) \/ ResumeDone

\* C11: after a failure on any path of the playback manager, every element
\* that is sounding is the one audioElement refers to.
C11_NoOrphanAfterFailure ==
    [][PlaybackFailureStep
         => \A e \in DOMAIN audios' :
               audios'[e].phase = "playing" => audioElement' = e]_vars

\* ------------------------------------------- properties of the trim engine
\* startTime < 0 or endTime <= startTime
InvalidRange(ts) ==
    Less(ts.startTime, Zero) \/ ~Less(ts.startTime, ts.endTime)

\* C12: a call with startTime < 0 or endTime <= startTime fails before the
\* file is decoded, with an error that differs from the one a decode failure
\* or a timeout is reported with.
C12_InvalidRangeDistinguished ==
    (trimPc # "idle" /\ InvalidRange(trimSettings))
    => /\ trimPc = "failed"
       /\ audioBuffer = Nothing
       /\ decodeTimer = "none" /\ ~decodePending
       /\ trimError # TrimFailure

\* The largest integer k with k <= time * rate.
Floor(time, rate) ==
    CHOOSE k \in 0..(time.n * rate) :
        k * time.d <= time.n * rate /\ time.n * rate < (k + 1) * time.d

\* 0 <= startTime < endTime <= duration of the decoded buffer
RangeInside ==
    /\ ~InvalidRange(trimSettings)
    /\ trimSettings.endTime.n * audioBuffer.sampleRate
         <= audioBuffer.length * trimSettings.endTime.d

\* C13: for a range inside the decoded buffer the trimmed buffer has
\* floor(end * sampleRate) - floor(start * sampleRate) frames and the sample
\* rate and channel count of the source.
C13_TrimmedFrameCount ==
    (trimPc = "done" /\ RangeInside)
    => /\ trimmedBuffer.length =
            Floor(trimSettings.endTime, audioBuffer.sampleRate)
              - Floor(trimSettings.startTime, audioBuffer.sampleRate)
       /\ trimmedBuffer.sampleRate = audioBuffer.sampleRate
       /\ trimmedBuffer.numberOfChannels = audioBuffer.numberOfChannels
       /\ \A c \in DOMAIN trimmedBuffer.data :
             DOMAIN trimmedBuffer.data[c] = 0..trimmedBuffer.length - 1

\* A finished trim whose start falls strictly inside a frame, so that floor
\* and round-to-nearest differ.
C13_Witness ==
    /\ trimPc = "done"
    /\ RangeInside
    /\ (2 * ((trimSettings.startTime.n * audioBuffer.sampleRate)
               % trimSettings.startTime.d)) >= trimSettings.startTime.d
    /\ trimmedBuffer.length >= 1

\* C14: every sample of the trimmed buffer is the source sample at
\* startFrame + i of the same channel.
C14_VerbatimCopy ==
    trimPc = "done"
    => \A c \in 0..trimmedBuffer.numberOfChannels - 1 :
         \A i \in 0..trimmedBuffer.length - 1 :
            /\ startSample + i \in DOMAIN audioBuffer.data[c]
            /\ trimmedBuffer.data[c][i] = audioBuffer.data[c][startSample + i]

\* endTime lies beyond the duration of the decoded buffer, startTime inside.
EndBeyondSource ==
    /\ ~InvalidRange(trimSettings)
    /\ trimSettings.endTime.n * audioBuffer.sampleRate
         > audioBuffer.length * trimSettings.endTime.d
    /\ startSample < audioBuffer.length

\* C15: when endTime exceeds the duration of the decoded buffer the end is
\* clamped: the result has totalFrames - startFrame frames, all copied from
\* the source.
C15_EndClamped ==
    (audioBuffer # Nothing /\ EndBeyondSource)
    => /\ trimPc = "done"
       /\ trimmedBuffer.length = audioBuffer.length - startSample
       /\ \A c \in 0..trimmedBuffer.numberOfChannels - 1 :
            \A i \in 0..trimmedBuffer.length - 1 :
               trimmedBuffer.data[c][i] # NaN

Min(a, b) == IF a < b THEN a ELSE b

\* The frame range is empty after clamping both ends to [0, totalFrames].
EmptyAfterClamp ==
    Min(startSample, audioBuffer.length) >= Min(endSample, audioBuffer.length)

\* C16: a frame range that is empty after clamping makes the trim fail; no
\* clip is produced.
C16_EmptyRangeFails ==
    (audioBuffer # Nothing /\ EmptyAfterClamp)
    => /\ trimPc = "failed"
       /\ wavBlob = Nothing

\* C17: a timeout that fires while decodeAudioData is pending makes the call
\* fail without a clip, for good; a timeout that fires after the decode has
\* been handled changes nothing of the result.
C17_DecodeTimeout ==
    /\ [](trimCause = "Audio decoding timeout"
            => trimPc = "failed" /\ wavBlob = Nothing /\ trimError # None)
    /\ [][(DecodeTimeout /\ trimPc = "decoding")
            => trimCause' = "Audio decoding timeout"]_allVars
    /\ [][(DecodeTimeout /\ trimPc # "decoding")
            => UNCHANGED <<trimPc, trimmedBuffer, wavBlob, trimCause,
                           trimError>>]_allVars

\* The timer has fired after a successful trim.
C17_Witness ==
    /\ trimPc = "done"
    /\ decodeTimer = "fired"
    /\ wavBlob # Nothing

\* C18: once the call has settled the AudioContext it created is not open.
C18_ContextReleased ==
    trimPc \in {"done", "failed"} => trimContext # "open"

\* The unsigned little-endian integer of k bytes at offset o of the blob.
Uint16At(blob, o) == blob[o] + 256 * blob[o + 1]
Uint32At(blob, o) ==
    blob[o] + 256 * blob[o + 1] + 65536 * blob[o + 2] + 16777216 * blob[o + 3]

\* C19: the blob has 44 + F*C*2 bytes and its header fields hold the values
\* of the WAV layout; for 44100 Hz, 2 channels and 1000 frames these are
\* 4036, 16, 1, 2, 44100, 176400, 4, 16, 4000.
C19_WavHeader ==
    trimPc = "done"
    => LET F == trimmedBuffer.length
           C == trimmedBuffer.numberOfChannels
           R == trimmedBuffer.sampleRate
       IN  /\ DOMAIN wavBlob = 0..(44 + F * C * 2) - 1
           /\ Uint32At(wavBlob, 4) = 36 + F * C * 2
           /\ Uint32At(wavBlob, 16) = 16
           /\ Uint16At(wavBlob, 20) = 1
           /\ Uint16At(wavBlob, 22) = C
           /\ Uint32At(wavBlob, 24) = R
           /\ Uint32At(wavBlob, 28) = R * C * 2
           /\ Uint16At(wavBlob, 32) = C * 2
           /\ Uint16At(wavBlob, 34) = 16
           /\ Uint32At(wavBlob, 40) = F * C * 2
           /\ (R = 44100 /\ C = 2 /\ F = 1000)
              => /\ DOMAIN wavBlob = 0..4043
                 /\ <<Uint32At(wavBlob, 4), Uint32At(wavBlob, 16),
                      Uint16At(wavBlob, 20), Uint16At(wavBlob, 22),
                      Uint32At(wavBlob, 24), Uint32At(wavBlob, 28),
                      Uint16At(wavBlob, 32), Uint16At(wavBlob, 34),
                      Uint32At(wavBlob, 40)>>
                    = <<4036, 16, 1, 2, 44100, 176400, 4, 16, 4000>>
                 /\ [o \in 4..7 |-> wavBlob[o]] = (4 :> 196 @@ 5 :> 15 @@ 6 :> 0 @@ 7 :> 0)
                 /\ [o \in 28..31 |-> wavBlob[o]] = (28 :> 16 @@ 29 :> 177 @@ 30 :> 2 @@ 31 :> 0)

\* The tone of 1000 stereo frames at 44100 Hz has been encoded.
C19_Witness ==
    /\ trimPc = "done"
    /\ trimmedBuffer.sampleRate = 44100
    /\ trimmedBuffer.numberOfChannels = 2
    /\ trimmedBuffer.length = 1000

\* The 16-bit value stored at offset o of the blob, as a signed integer.
Int16At(blob, o) == ToInt16(blob[o] + 256 * blob[o + 1])

\* C20: the sample of frame i and channel c is written exactly once, at
\* offset 44 + (i*C + c)*2, and the writer ends at offset 44 + F*C*2.
C20_Interleaving ==
    trimPc = "done"
    => LET b  == trimmedBuffer
           C  == b.numberOfChannels
           dw == DataWrites(b)
       IN  /\ \A i \in 0..b.length - 1 : \A c \in 0..C - 1 :
                 /\ Cardinality({k \in DOMAIN dw :
                                   dw[k].frame = i /\ dw[k].channel = c}) = 1
                 /\ \A k \in DOMAIN dw :
                       (dw[k].frame = i /\ dw[k].channel = c)
                       => dw[k].offset = 44 + (i * C + c) * 2
                 /\ Int16At(wavBlob, 44 + (i * C + c) * 2)
                      = Quantize(b.data[c][i])
           /\ Cardinality({dw[k].offset : k \in DOMAIN dw}) = b.length * C
           /\ FinalOffset(b) = 44 + b.length * C * 2

\* A stereo clip of at least two frames with distinct samples has been
\* encoded.
C20_Witness ==
    /\ trimPc = "done"
    /\ trimmedBuffer.numberOfChannels = 2
    /\ trimmedBuffer.length >= 2
    /\ Quantize(trimmedBuffer.data[1][0]) # Quantize(trimmedBuffer.data[0][1])

\* The 16-bit code stored in the blob for frame i of channel c.
StoredCode(i, c) ==
    Int16At(wavBlob, 44 + (i * trimmedBuffer.numberOfChannels + c) * 2)

\* v is the float s / den times 32768 (s < 0) or 32767 (s >= 0), truncated
\* towards zero.
TruncatedProduct(v, s, den) ==
    IF s < 0
    THEN v <= 0 /\ (-v) * den <= (-s) * 32768 /\ (-s) * 32768 < (1 - v) * den
    ELSE v >= 0 /\ v * den <= s * 32767 /\ s * 32767 < (v + 1) * den

\* What the claim says of the code v stored for the sample s / den.
QuantizedAsClaimed(v, s, den) ==
    /\ v \in -32768..32767
    /\ s >= den => v = 32767
    /\ s <= -den => v = -32768
    /\ s = 0 => v = 0
    /\ (-den <= s /\ s <= den) => TruncatedProduct(v, s, den)

\* C21: every stored sample is the clamped sample times 32768 (negative) or
\* 32767 (non-negative), truncated towards zero; it lies in
\* [-32768, 32767], with -1 -> -32768, 0 -> 0, 1 -> 32767 and samples outside
\* [-1, 1] stored as the nearest bound.
C21_Quantization ==
    /\ trimPc = "done"
       => \A c \in 0..trimmedBuffer.numberOfChannels - 1 :
            \A i \in 0..trimmedBuffer.length - 1 :
               IF trimmedBuffer.data[c][i] = NaN
               THEN StoredCode(i, c) \in -32768..32767
               ELSE QuantizedAsClaimed(StoredCode(i, c),
                                       trimmedBuffer.data[c][i], SampleDen)
    /\ \A s \in -2 * SampleDen..2 * SampleDen :
          QuantizedAsClaimed(Quantize(s), s, SampleDen)

\* A clip holding a sample above 1, one below -1 and a fraction whose
\* product is truncated has been encoded.
C21_Witness ==
    /\ trimPc = "done"
    /\ \E c \in 0..trimmedBuffer.numberOfChannels - 1 :
         \E i, j, k \in 0..trimmedBuffer.length - 1 :
            /\ trimmedBuffer.data[c][i] # NaN
            /\ trimmedBuffer.data[c][i] > SampleDen
            /\ trimmedBuffer.data[c][j] < -SampleDen
            /\ trimmedBuffer.data[c][k] \in 1..SampleDen - 1
            /\ (trimmedBuffer.data[c][k] * 32767) % SampleDen # 0

\* C22: every 16-bit code stored in the blob is a fixed point of decoding
\* and encoding again, so the second encoding has the same bytes.
C22_RoundTrip ==
    trimPc = "done"
    => \A c \in 0..trimmedBuffer.numberOfChannels - 1 :
         \A i \in 0..trimmedBuffer.length - 1 :
            QuantizeAt(DecodePcm16(StoredCode(i, c)), DecodeDen)
               = StoredCode(i, c)

\* The 'ended' or 'error' listener of element e runs while a later
\* handlePlay call's element is the one held in audioElement.
StaleEventStep(e) ==
    /\ Ended(e) \/ ErrorEvent(e)
    /\ audioElement # NoAudio
    /\ e # audioElement
    /\ audios[e].req < audios[audioElement].req

\* C25: an 'ended' or 'error' event of a superseded element leaves
\* currentlyPlaying and audioElement as they are.
C25_StaleEventIgnored ==
    [][\A e \in Elements :
          StaleEventStep(e) => UNCHANGED <<currentlyPlaying, audioElement>>]_vars

\* C26: whenever a clip is recorded as currentlyPlaying, audioElement holds
\* an element of that clip and the element is playing.
C26_PlayingButtonIsPlaying ==
    currentlyPlaying # None
    => /\ audioElement # NoAudio
       /\ audios[audioElement].sound = currentlyPlaying
       /\ audios[audioElement].phase = "playing"

\* name is the name of a stored clip.
StoredName(fs, name) == Len(name) = 1 /\ name[1] \in Listed(fs)

\* What the claim says of the store in every state.
StoreKeepsSaved ==
    /\ \A f \in live : f \in Listed(files) /\ GetStatus(files, <<f>>) = 200
    /\ \A f \in gone : /\ f \notin Listed(files)
                       /\ GetStatus(files, <<f>>) = 404
                       /\ DeleteStatus(files, <<f>>) = 404

\* C24: a name returned by a successful save is listed and served until a
\* DELETE of it succeeds; afterwards it is not listed and GET and DELETE of
\* it answer 404; a DELETE of a name that is not stored answers 404 and
\* changes no stored file.
C24_StoreLifecycle ==
    /\ []StoreKeepsSaved
    /\ [][\A name \in RequestNames :
             (ServerDelete(name) /\ ~StoredName(files, name))
             => lastResponse'.status = 404 /\ files' = files]_allVars
\* The last sound of the catalog is the file the server has just confirmed.
SavedSoundAdded ==
    /\ lastResponse'.op = "save"
    /\ lastResponse'.status = 200
    /\ Append(soundsDir, lastResponse'.name[1]) \in files'
    /\ sounds' = Append(sounds, sounds'[Len(sounds')])
    /\ sounds'[Len(sounds')].filename = FileName(lastResponse'.name[1])

\* C23: the catalog changes only in the step in which a save answered ok for
\* a trim that had completed, and then by exactly the saved sound; a step
\* in which handleSubmit fails (createTrimmedAudio rejected, the blob could
\* not be read, the POST failed or was not ok) leaves the catalog as it was.
C23_AddOnlyAfterTrimAndSave ==
    [][/\ sounds' # sounds =>
            /\ formPc = "saving"
            /\ trimPc = "done"
            /\ wavBlob # Nothing
            /\ SavedSoundAdded
       /\ (formPc' = "failed" /\ formPc # "failed") => sounds' = sounds]_allVars

C23_Witness ==
    /\ formPc = "added"
    /\ lastResponse.status = 200
    /\ Len(sounds) = 2
    /\ sounds[2].filename = FileName(lastResponse.name[1])

\* C30: once handleSubmit has failed, isProcessing is false and an error
\* message is set.
C30_FailureEndsProcessing ==
    formPc = "failed" => (~isProcessing /\ formError # None)

\* Every loadSounds call of the current page load has settled.
LoadsSettled ==
    /\ page = "open"
    /\ loads # << >>
    /\ \A i \in DOMAIN loads : loads[i].pc # "fetching"

\* C28: once the startup load of a later page load has settled, the catalog
\* holds no sound that was deleted during an earlier page load.
C28_DeletedStaysDeleted ==
    LoadsSettled =>
        \A d \in deleted : d.start < starts => d.filename \notin FileNames(sounds)

\* C29: when every loadSounds call of a page load got no sounds from the
\* server, or no answer, and the user has changed nothing since, the catalog
\* is the list saved under 'audio-sounds' before the page was opened,
\* restricted to the sounds whose audioUrl starts with 'blob:',
\* '/api/sounds/' or 'http'.
C29_FallbackRestoresSaved ==
    (/\ LoadsSettled
     /\ \A i \in DOMAIN loads : loads[i].pc = "fallback"
     /\ ~touched)
        => sounds = ValidSounds(storedAtStart)

\* C27: no element of a clip that is not in the catalog is sounding, and
\* currentlyPlaying is a clip of the catalog.
C27_DeletedClipSilent ==
    LET ids == {sounds[i].id : i \in DOMAIN sounds}
    IN  /\ currentlyPlaying # None => currentlyPlaying \in ids
        /\ \A e \in Elements : Sounding(e) => audios[e].sound \in ids

====
